---- MODULE Spec2Model ----
(***************************************************************************)
(* Model of the QIR emitter of pyqir/qirlib (src/emit/mod.rs).             *)
(*                                                                         *)
(* Emitter::write walks a SemanticModel (quantum register entries,         *)
(* classical registers, instructions) and appends IR operations to one     *)
(* entry function: qubit allocations, result arrays, one call per          *)
(* instruction, qubit releases and the return; then the module is printed  *)
(* to a file.                                                              *)
(*                                                                         *)
(* Strings are sequences of one-character strings, so that format! and the *)
(* key order of BTreeMap<String, _> are computed, not assumed.  An IR      *)
(* value is the position in `ir` of the operation that produced it.        *)
(***************************************************************************)
EXTENDS Integers, Sequences, FiniteSets, TLC

\* ------------------------------------------------------------------------
\* Bounds of the model
\* ------------------------------------------------------------------------
MaxQubits == 2

MaxRegs == 2

MaxInsts == 2

\* ------------------------------------------------------------------------
\* Strings
\* ------------------------------------------------------------------------
\* The characters used by the names of the model, in byte (ASCII) order.
Chars == <<"0", "1", "2", "3", "4", "5", "6", "7", "8", "9", "_",
           "c", "d", "e", "l", "q", "r", "s", "t", "u">>

\* Rank of a character in byte order.
CharRank(c) == CHOOSE i \in 1..Len(Chars) : Chars[i] = c

\* Ord::cmp of String: bytewise lexicographic order, a proper prefix first.
RECURSIVE StrLess(_, _)
StrLess(a, b) ==
    IF b = <<>> THEN FALSE
    ELSE IF a = <<>> THEN TRUE
    ELSE IF Head(a) # Head(b) THEN CharRank(Head(a)) < CharRank(Head(b))
    ELSE StrLess(Tail(a), Tail(b))

\* Display of an unsigned integer: its decimal digits, no padding.
RECURSIVE Decimal(_)
Decimal(n) ==
    IF n < 10 THEN <<Chars[n + 1]>>
    ELSE Decimal(n \div 10) \o <<Chars[(n % 10) + 1]>>

\* Mutant of IndexedName: a separator between base name and index.
IndexedName_separator(reg) == reg.name \o <<"_">> \o Decimal(reg.index)

\* format!("{}{}", &reg.name[..], reg.index)
IndexedName(reg) == reg.name \o Decimal(reg.index)

\* String::from("results")
ResultsName == <<"r", "e", "s", "u", "l", "t", "s">>

\* ------------------------------------------------------------------------
\* BTreeMap<String, BasicValueEnum>
\* ------------------------------------------------------------------------
\* BTreeMap::new()
EmptyMap == [k \in {} |-> 0]

\* Mutant of MapInsert: a present key keeps its first value.
MapInsert_keeps_first(m, k, v) ==
    [x \in (DOMAIN m) \cup {k} |-> IF x \in DOMAIN m THEN m[x] ELSE v]

\* BTreeMap::insert: a present key keeps one entry and takes the new value.
MapInsert(m, k, v) == [x \in (DOMAIN m) \cup {k} |-> IF x = k THEN v ELSE m[x]]

\* The least key of a non-empty key set.
MinKey(S) == CHOOSE k \in S : \A o \in S \ {k} : StrLess(k, o)

\* BTreeMap::iter: the keys in ascending order.
RECURSIVE KeysInOrder(_)
KeysInOrder(S) ==
    IF S = {} THEN <<>>
    ELSE LET k == MinKey(S) IN <<k>> \o KeysInOrder(S \ {k})

\* ------------------------------------------------------------------------
\* IR operations
\* ------------------------------------------------------------------------
\* One appended IR operation: what is called, the name it carries, the value
\* it acts on (0: none) and its operands.
IrOp(op, name, id, args) == [op |-> op, name |-> name, id |-> id, args |-> args]

\* The positions in s of the operations with the given op, in emission order.
RECURSIVE PositionsOf(_, _, _)
PositionsOf(s, kinds, i) ==
    IF i > Len(s) THEN <<>>
    ELSE (IF s[i].op \in kinds THEN <<i>> ELSE <<>>) \o PositionsOf(s, kinds, i + 1)

InstKinds == {"H", "X", "Cx", "M", "Reset"}

\* ------------------------------------------------------------------------
\* Program models the emitter is run on
\* ------------------------------------------------------------------------
QuantumRegister(name, index) == [name |-> name, index |-> index]

ClassicalRegister(name, size) == [name |-> name, size |-> size]

Single(kind, qubit) == [kind |-> kind, qubits |-> <<qubit>>, target |-> <<>>]

Controlled(kind, control, target) ==
    [kind |-> kind, qubits |-> <<control, target>>, target |-> <<>>]

Measure(qubit, target) == [kind |-> "M", qubits |-> <<qubit>>, target |-> target]

\* Entries include two that format to the same indexed name "q10".
QubitEntries ==
    { QuantumRegister(<<"q">>, 0),
      QuantumRegister(<<"q">>, 10),
      QuantumRegister(<<"q", "1">>, 0) }

RegisterEntries ==
    { ClassicalRegister(<<"c">>, 2),
      ClassicalRegister(ResultsName, 1) }

\* "q9" is never declared.
InstructionEntries ==
    { Single("H", <<"q", "0">>),
      Controlled("Cx", <<"q", "0">>, <<"q", "1", "0">>),
      Measure(<<"q", "1", "0">>, <<"c", "0">>),
      Single("X", <<"q", "9">>) }

SeqsUpTo(S, n) == UNION { [1..k -> S] : k \in 0..n }

Models ==
    [ qubits : SeqsUpTo(QubitEntries, MaxQubits),
      registers : SeqsUpTo(RegisterEntries, MaxRegs),
      instructions : SeqsUpTo(InstructionEntries, MaxInsts) ]

VARIABLES
    model,      \* the SemanticModel passed to Emitter::write (never mutated)
    pc,         \* the next step of Emitter::write, or "done" / "aborted"
    trace,      \* the steps of Emitter::write taken so far
    qubits,     \* local `qubits` of write: indexed name -> qubit value
    registers,  \* local `registers` of write: name -> array value
    ir,         \* the operations appended to the entry function
    arrays,     \* array value -> its element slots (0: not set)
    output,     \* the value given to build_return (0: none yet)
    written,    \* the module was printed to the output file
    err         \* why the run aborted ("": it did not)

vars == <<model, pc, trace, qubits, registers, ir, arrays, output, written, err>>

\* ------------------------------------------------------------------------
\* Callees outside emit/mod.rs (qir::qubits, qir::array1d, qir::instructions)
\* ------------------------------------------------------------------------
\* qir::array1d::emit_array_allocate1d(context, bits, length, name): an array
\* of `length` slots, none set.
emit_array_allocate1d(length) == [i \in 1..length |-> 0]

\* qir::array1d::emit_array_1d(context, name, size): a result array of the
\* register's declared width.
emit_array_1d(size) == [i \in 1..size |-> 0]

\* qir::array1d::emit_empty_result_array_allocate1d(context, name)
emit_empty_result_array_allocate1d == <<>>

\* qir::array1d::set_elements(context, results, sub_results, name): slot i of
\* the array takes the i-th sub-array, in the order given.
set_elements(elems, sub_results) ==
    [i \in 1..Len(elems) |-> IF i <= Len(sub_results) THEN sub_results[i] ELSE elems[i]]

\* qir::instructions::emit resolves every qubit name of the instruction in
\* the qubit table; an absent name is fatal.
emit_resolves(inst, tbl) == \A k \in 1..Len(inst.qubits) : inst.qubits[k] \in DOMAIN tbl

\* qir::instructions::emit: the call for the instruction, on the resolved values.
emit(inst, tbl) ==
    IrOp(inst.kind, inst.target, 0, [k \in 1..Len(inst.qubits) |-> tbl[inst.qubits[k]]])

\* ------------------------------------------------------------------------
\* Emitter
\* ------------------------------------------------------------------------
\* The loop of write_qubits from entry i on.
RECURSIVE WriteQubitsLoop(_, _, _, _)
WriteQubitsLoop(regs, i, tbl, out) ==
    IF i > Len(regs) THEN [qubits |-> tbl, ir |-> out]
    ELSE LET indexed_name == IndexedName(regs[i])
             value == Len(out) + 1
         IN  WriteQubitsLoop(regs, i + 1,
                             MapInsert(tbl, indexed_name, value),
                             Append(out, IrOp("qubit_allocate", indexed_name, value, <<>>)))

\* Emitter::write_qubits
write_qubits(m, out) == WriteQubitsLoop(m.qubits, 1, EmptyMap, out)

\* Mutant of WriteRegistersLoop: each sub-array is put in front of the
\* collected ones instead of pushed behind them.
RECURSIVE WriteRegistersLoop_prepends(_, _, _, _, _, _)
WriteRegistersLoop_prepends(regs, i, tbl, sub_results, out, arrs) ==
    IF i > Len(regs)
    THEN [registers |-> tbl, sub_results |-> sub_results, ir |-> out, arrays |-> arrs]
    ELSE LET sub_result == Len(out) + 1
         IN  WriteRegistersLoop_prepends(
                 regs, i + 1,
                 MapInsert(tbl, regs[i].name, sub_result),
                 <<sub_result>> \o sub_results,
                 Append(out, IrOp("array_1d", regs[i].name, sub_result, <<regs[i].size>>)),
                 MapInsert(arrs, sub_result, emit_array_1d(regs[i].size)))

\* The loop of write_registers over model.registers from register i on.
RECURSIVE WriteRegistersLoop(_, _, _, _, _, _)
WriteRegistersLoop(regs, i, tbl, sub_results, out, arrs) ==
    IF i > Len(regs)
    THEN [registers |-> tbl, sub_results |-> sub_results, ir |-> out, arrays |-> arrs]
    ELSE LET sub_result == Len(out) + 1
         IN  WriteRegistersLoop(regs, i + 1,
                                MapInsert(tbl, regs[i].name, sub_result),
                                Append(sub_results, sub_result),
                                Append(out, IrOp("array_1d", regs[i].name, sub_result,
                                                 <<regs[i].size>>)),
                                MapInsert(arrs, sub_result, emit_array_1d(regs[i].size)))

\* Mutant of write_registers_some: the per-register arrays are allocated
\* first and the top-level array after them.
write_registers_some_subs_first(m, out, arrs) ==
    LET number_of_registers == Len(m.registers)
        l == WriteRegistersLoop(m.registers, 1, EmptyMap, <<>>, out, arrs)
        results == Len(l.ir) + 1
    IN  [registers |-> MapInsert(l.registers, ResultsName, results),
         ir |-> l.ir \o <<IrOp("array_allocate1d", ResultsName, results,
                               <<8, number_of_registers>>),
                          IrOp("set_elements", ResultsName, results, l.sub_results)>>,
         arrays |-> MapInsert(l.arrays, results,
                              set_elements(emit_array_allocate1d(number_of_registers),
                                           l.sub_results))]

\* write_registers, the branch number_of_registers > 0
write_registers_some(m, out, arrs) ==
    LET number_of_registers == Len(m.registers)
        results == Len(out) + 1
        l == WriteRegistersLoop(
                 m.registers, 1,
                 MapInsert(EmptyMap, ResultsName, results),
                 <<>>,
                 Append(out, IrOp("array_allocate1d", ResultsName, results,
                                  <<8, number_of_registers>>)),
                 MapInsert(arrs, results, emit_array_allocate1d(number_of_registers)))
    IN  [registers |-> l.registers,
         ir |-> Append(l.ir, IrOp("set_elements", ResultsName, results, l.sub_results)),
         arrays |-> [l.arrays EXCEPT ![results] = set_elements(@, l.sub_results)]]

\* write_registers, the else branch
write_registers_none(out, arrs) ==
    LET results == Len(out) + 1
    IN  [registers |-> MapInsert(EmptyMap, ResultsName, results),
         ir |-> Append(out, IrOp("empty_result_array_allocate1d", ResultsName,
                                 results, <<>>)),
         arrays |-> MapInsert(arrs, results, emit_empty_result_array_allocate1d)]

\* Mutant of write_registers: the zero-register case is not told apart.
write_registers_always_wraps(m, out, arrs) == write_registers_some(m, out, arrs)

\* Emitter::write_registers
write_registers(m, out, arrs) ==
    IF Len(m.registers) > 0
    THEN write_registers_some(m, out, arrs)
    ELSE write_registers_none(out, arrs)

\* Mutant of WriteInstructionsLoop: an instruction that fails to resolve is
\* skipped and the loop goes on.
RECURSIVE WriteInstructionsLoop_skips(_, _, _, _)
WriteInstructionsLoop_skips(insts, i, tbl, out) ==
    IF i > Len(insts) THEN [ir |-> out, failed |-> FALSE]
    ELSE IF ~emit_resolves(insts[i], tbl)
         THEN WriteInstructionsLoop_skips(insts, i + 1, tbl, out)
         ELSE WriteInstructionsLoop_skips(insts, i + 1, tbl,
                                          Append(out, emit(insts[i], tbl)))

\* The loop of write_instructions from instruction i on; it ends at the
\* first instruction whose emission fails.
RECURSIVE WriteInstructionsLoop(_, _, _, _)
WriteInstructionsLoop(insts, i, tbl, out) ==
    IF i > Len(insts) THEN [ir |-> out, failed |-> FALSE]
    ELSE IF ~emit_resolves(insts[i], tbl) THEN [ir |-> out, failed |-> TRUE]
    ELSE WriteInstructionsLoop(insts, i + 1, tbl, Append(out, emit(insts[i], tbl)))

\* Mutant of write_instructions: the instructions are walked last to first.
write_instructions_reversed(m, tbl, out) ==
    WriteInstructionsLoop([k \in 1..Len(m.instructions) |->
                              m.instructions[Len(m.instructions) + 1 - k]],
                          1, tbl, out)

\* Emitter::write_instructions
write_instructions(m, tbl, out) == WriteInstructionsLoop(m.instructions, 1, tbl, out)

\* The loop of free_qubits over the remaining keys, in iteration order.
RECURSIVE FreeQubitsLoop(_, _, _)
FreeQubitsLoop(keys, tbl, out) ==
    IF keys = <<>> THEN out
    ELSE FreeQubitsLoop(Tail(keys), tbl,
                        Append(out, IrOp("release", <<>>, 0, <<tbl[Head(keys)]>>)))

\* The keys of tbl by ascending value, i.e. in the order of their allocation.
RECURSIVE KeysByValue(_, _)
KeysByValue(tbl, S) ==
    IF S = {} THEN <<>>
    ELSE LET k == CHOOSE x \in S : \A o \in S : tbl[x] <= tbl[o]
         IN  <<k>> \o KeysByValue(tbl, S \ {k})

\* Mutant of free_qubits: the table is walked in insertion order.
free_qubits_insertion_order(tbl, out) ==
    FreeQubitsLoop(KeysByValue(tbl, DOMAIN tbl), tbl, out)

\* Emitter::free_qubits
free_qubits(tbl, out) == FreeQubitsLoop(KeysInOrder(DOMAIN tbl), tbl, out)

\* ------------------------------------------------------------------------
\* Emitter::write, one action per statement
\* ------------------------------------------------------------------------
\* Mutant of StepOrder: the qubits are released before the instructions are
\* emitted.
StepOrder_releases_early ==
    <<"context", "entry", "write_qubits", "write_registers",
      "free_qubits", "write_instructions", "return", "emit_ir">>

\* The steps of write, in program order.
StepOrder == <<"context", "entry", "write_qubits", "write_registers",
               "write_instructions", "free_qubits", "return", "emit_ir">>

StepIndex(s) == CHOOSE i \in 1..Len(StepOrder) : StepOrder[i] = s

\* Mutant of NextPc: write returns after build_return, emit_ir is not called.
NextPc_no_emit_ir(s) ==
    IF s = "return" \/ StepIndex(s) = Len(StepOrder) THEN "done"
    ELSE StepOrder[StepIndex(s) + 1]

\* Where control goes when step s completes normally.
NextPc(s) == IF StepIndex(s) = Len(StepOrder) THEN "done" ELSE StepOrder[StepIndex(s) + 1]

\* A panic: the run ends, nothing after the panicking statement executes.
Abort(why) == pc' = "aborted" /\ err' = why

Init ==
    /\ model \in Models
    /\ pc = "context"
    /\ trace = <<>>
    /\ qubits = EmptyMap
    /\ registers = EmptyMap
    /\ ir = <<>>
    /\ arrays = EmptyMap
    /\ output = 0
    /\ written = FALSE
    /\ err = ""

\* Mutant of ContextNew: a missing declaration is noticed but the
\* construction returns and write goes on.
ContextNew_lazy ==
    /\ pc = "context"
    /\ trace' = Append(trace, "context")
    /\ \E found \in BOOLEAN :
          /\ pc' = NextPc("context")
          /\ err' = IF found THEN err ELSE "declaration"
    /\ UNCHANGED <<model, qubits, registers, ir, arrays, output, written>>

\* Context::new: load the module and look up the declarations; a missing
\* declaration is fatal.
ContextNew ==
    /\ pc = "context"
    /\ trace' = Append(trace, "context")
    /\ \E found \in BOOLEAN :
          IF found THEN pc' = NextPc("context") /\ err' = err
          ELSE Abort("declaration")
    /\ UNCHANGED <<model, qubits, registers, ir, arrays, output, written>>

\* get_entry_function, append_basic_block, position_at_end
OpenEntry ==
    /\ pc = "entry"
    /\ trace' = Append(trace, "entry")
    /\ ir' = Append(ir, IrOp("entry", <<>>, 0, <<>>))
    /\ pc' = NextPc("entry")
    /\ UNCHANGED <<model, qubits, registers, arrays, output, written, err>>

\* let qubits = Emitter::write_qubits(&model, &context);
WriteQubits ==
    /\ pc = "write_qubits"
    /\ trace' = Append(trace, "write_qubits")
    /\ LET r == write_qubits(model, ir)
       IN  qubits' = r.qubits /\ ir' = r.ir
    /\ pc' = NextPc("write_qubits")
    /\ UNCHANGED <<model, registers, arrays, output, written, err>>

\* let registers = Emitter::write_registers(&model, &context);
WriteRegisters ==
    /\ pc = "write_registers"
    /\ trace' = Append(trace, "write_registers")
    /\ LET r == write_registers(model, ir, arrays)
       IN  registers' = r.registers /\ ir' = r.ir /\ arrays' = r.arrays
    /\ pc' = NextPc("write_registers")
    /\ UNCHANGED <<model, qubits, output, written, err>>

\* Mutant of WriteInstructions: a failed emission is recorded but write goes
\* on with the next statement.
WriteInstructions_goes_on ==
    /\ pc = "write_instructions"
    /\ trace' = Append(trace, "write_instructions")
    /\ LET r == write_instructions(model, qubits, ir)
       IN  /\ ir' = r.ir
           /\ err' = IF r.failed THEN "name_resolution" ELSE err
           /\ pc' = NextPc("write_instructions")
    /\ UNCHANGED <<model, qubits, registers, arrays, output, written>>

\* let _ = Emitter::write_instructions(&model, &context, &qubits);
WriteInstructions ==
    /\ pc = "write_instructions"
    /\ trace' = Append(trace, "write_instructions")
    /\ LET r == write_instructions(model, qubits, ir)
       IN  /\ ir' = r.ir
           /\ IF r.failed THEN Abort("name_resolution")
              ELSE pc' = NextPc("write_instructions") /\ err' = err
    /\ UNCHANGED <<model, qubits, registers, arrays, output, written>>

\* Emitter::free_qubits(&context, &qubits);
FreeQubits ==
    /\ pc = "free_qubits"
    /\ trace' = Append(trace, "free_qubits")
    /\ ir' = free_qubits(qubits, ir)
    /\ pc' = NextPc("free_qubits")
    /\ UNCHANGED <<model, qubits, registers, arrays, output, written, err>>

\* let output = registers.get("results").unwrap();
\* context.builder.build_return(Some(output));
BuildReturn ==
    /\ pc = "return"
    /\ trace' = Append(trace, "return")
    /\ IF ResultsName \in DOMAIN registers
       THEN /\ output' = registers[ResultsName]
            /\ ir' = Append(ir, IrOp("return", <<>>, 0, <<registers[ResultsName]>>))
            /\ pc' = NextPc("return")
            /\ err' = err
       ELSE /\ Abort("unwrap")
            /\ UNCHANGED <<output, ir>>
    /\ UNCHANGED <<model, qubits, registers, arrays, written>>

\* Mutant of EmitIr: the Err of print_to_file is dropped and write returns.
EmitIr_ignores_error ==
    /\ pc = "emit_ir"
    /\ trace' = Append(trace, "emit_ir")
    /\ \E printed \in BOOLEAN :
          /\ written' = printed
          /\ pc' = NextPc("emit_ir")
          /\ err' = err
    /\ UNCHANGED <<model, qubits, registers, ir, arrays, output>>

\* context.emit_ir(file_name): print_to_file; an Err reaches todo!().
EmitIr ==
    /\ pc = "emit_ir"
    /\ trace' = Append(trace, "emit_ir")
    /\ \E printed \in BOOLEAN :
          /\ written' = printed
          /\ IF printed THEN pc' = NextPc("emit_ir") /\ err' = err
             ELSE Abort("serialization")
    /\ UNCHANGED <<model, qubits, registers, ir, arrays, output>>

Next ==
    \/ ContextNew
    \/ OpenEntry
    \/ WriteQubits
    \/ WriteRegisters
    \/ WriteInstructions
    \/ FreeQubits
    \/ BuildReturn
    \/ EmitIr

Spec == Init /\ [][Next]_vars

\* Emitter::write is straight-line code: a step that can run does run.
FairSpec == Spec /\ WF_vars(Next)

\* ------------------------------------------------------------------------
\* Vocabulary of the properties
\* ------------------------------------------------------------------------
\* Step s of write has been taken.
Taken(s) == \E i \in 1..Len(trace) : trace[i] = s

\* The positions of the qubit allocations, the releases and the instruction
\* calls in the emitted function.
AllocPositions == PositionsOf(ir, {"qubit_allocate"}, 1)

ReleasePositions == PositionsOf(ir, {"release"}, 1)

InstPositions == PositionsOf(ir, InstKinds, 1)

\* Base name concatenated with the decimal index, no separator.
NameOfEntry(e) == e.name \o Decimal(e.index)

DeclaredNames == { NameOfEntry(model.qubits[i]) : i \in 1..Len(model.qubits) }

\* Instruction k of the model names a qubit that is not a key of the table.
Unresolvable(k) ==
    \E j \in 1..Len(model.instructions[k].qubits) :
        model.instructions[k].qubits[j] \notin DOMAIN qubits

\* Every qubit name used by an instruction is a declared indexed name.
WellFormed ==
    \A k \in 1..Len(model.instructions) :
        \A j \in 1..Len(model.instructions[k].qubits) :
            model.instructions[k].qubits[j] \in DeclaredNames

\* ------------------------------------------------------------------------
\* C1
\* ------------------------------------------------------------------------
\* C1: when Emitter::write completes, every qubit value obtained from an
\* allocation call of write_qubits has exactly one release call emitted by
\* free_qubits, for any sequence of quantum register entries.
C1_EveryAllocationReleasedOnce ==
    pc = "done" =>
        \A i \in 1..Len(AllocPositions) :
            Cardinality({ j \in 1..Len(ReleasePositions) :
                            ir[ReleasePositions[j]].args = <<AllocPositions[i]>> }) = 1

\* ------------------------------------------------------------------------
\* C2
\* ------------------------------------------------------------------------
\* The steps the claim lists, after the construction of the context.
C2_Steps == <<"context", "entry", "write_qubits", "write_registers",
              "write_instructions", "free_qubits", "return", "emit_ir">>

\* C2: write takes its steps in the order open entry, allocate qubits,
\* allocate registers, emit instructions, release qubits, build return,
\* serialize; each at most once, each only after its predecessor, never
\* going back: the steps taken are always an initial part of that list, the
\* step about to run is the one that follows them, every release stands
\* after every instruction call and the return after every release.
C2_StepsInOrder ==
    /\ Len(trace) <= Len(C2_Steps)
    /\ \A i \in 1..Len(trace) : trace[i] = C2_Steps[i]
    /\ pc \notin {"done", "aborted"} => pc = C2_Steps[Len(trace) + 1]
    /\ pc = "done" => trace = C2_Steps
    /\ \A i, j \in 1..Len(ir) :
          /\ (ir[i].op \in InstKinds /\ ir[j].op = "release") => i < j
          /\ (ir[i].op = "release" /\ ir[j].op = "return") => i < j
          /\ (ir[i].op \in InstKinds /\ ir[j].op = "return") => i < j

\* A completed run that emitted an instruction call and a release.
C2_Witness ==
    /\ pc = "done"
    /\ Len(InstPositions) > 0
    /\ Len(ReleasePositions) > 0

\* ------------------------------------------------------------------------
\* C3
\* ------------------------------------------------------------------------
\* C3: with N >= 1 classical registers, once write_registers has run there
\* is one top-level array named "results", it has exactly N element slots,
\* and slot i holds the array allocated for the i-th classical register of
\* the model (named after it, of its declared size).
C3_ResultsHoldsSubArraysInOrder ==
    (Taken("write_registers") /\ Len(model.registers) >= 1) =>
        LET tops == PositionsOf(ir, {"array_allocate1d"}, 1)
            subs == PositionsOf(ir, {"array_1d"}, 1)
        IN  /\ Len(tops) = 1
            /\ ir[tops[1]].name = ResultsName
            /\ Len(arrays[tops[1]]) = Len(model.registers)
            /\ Len(subs) = Len(model.registers)
            /\ \A i \in 1..Len(model.registers) :
                  /\ arrays[tops[1]][i] = subs[i]
                  /\ ir[subs[i]].name = model.registers[i].name
                  /\ ir[subs[i]].args = <<model.registers[i].size>>
                  /\ Len(arrays[subs[i]]) = model.registers[i].size

\* write_registers has run on a model with exactly one classical register.
C3_Witness ==
    /\ Taken("write_registers")
    /\ Len(model.registers) = 1
    /\ \E t \in DOMAIN arrays : Len(arrays[t]) = 1 /\ arrays[t][1] \in DOMAIN arrays

\* ------------------------------------------------------------------------
\* C4
\* ------------------------------------------------------------------------
\* C4: whatever the names of the classical registers, the table returned by
\* write_registers has a "results" entry and the value given to the return
\* is the top-level results array, never a per-register sub-array.
C4_ReturnsTopLevelResults ==
    /\ Taken("write_registers") => ResultsName \in DOMAIN registers
    /\ Taken("return") =>
          /\ output # 0
          /\ ir[output].op \in {"array_allocate1d", "empty_result_array_allocate1d"}

\* ------------------------------------------------------------------------
\* C5
\* ------------------------------------------------------------------------
\* C5: the k-th instruction call emitted is the call for the k-th instruction
\* of the model (its kind, its target, its qubits' values), and when
\* write_instructions has completed there is exactly one call per
\* instruction: none dropped, duplicated or reordered.
C5_InstructionsInModelOrder ==
    /\ Len(InstPositions) <= Len(model.instructions)
    /\ \A k \in 1..Len(InstPositions) :
          LET o == ir[InstPositions[k]]
              inst == model.instructions[k]
          IN  /\ o.op = inst.kind
              /\ o.name = inst.target
              /\ Len(o.args) = Len(inst.qubits)
              /\ \A j \in 1..Len(inst.qubits) :
                    /\ inst.qubits[j] \in DOMAIN qubits
                    /\ o.args[j] = qubits[inst.qubits[j]]
    /\ (Taken("write_instructions") /\ err # "name_resolution") =>
          Len(InstPositions) = Len(model.instructions)
    /\ ~Taken("write_instructions") => Len(InstPositions) = 0

\* A completed run on two different instructions, both emitted.
C5_Witness ==
    /\ pc = "done"
    /\ Len(model.instructions) = 2
    /\ model.instructions[1] # model.instructions[2]
    /\ Len(InstPositions) = 2

\* ------------------------------------------------------------------------
\* C6
\* ------------------------------------------------------------------------
\* The first instruction of the model that names an undeclared qubit.
FirstUnresolvable ==
    CHOOSE k \in 1..Len(model.instructions) :
        /\ Unresolvable(k)
        /\ \A h \in 1..(k - 1) : ~Unresolvable(h)

\* C6: if an instruction names a qubit that is not a key of the qubit table,
\* write_instructions aborts with a name-resolution failure at that
\* instruction: only the instructions before it are emitted, and no release,
\* no return and no serialization follows.
C6_UnknownQubitAborts ==
    (Taken("write_instructions") /\ \E k \in 1..Len(model.instructions) : Unresolvable(k)) =>
        /\ pc = "aborted"
        /\ err = "name_resolution"
        /\ trace[Len(trace)] = "write_instructions"
        /\ Len(InstPositions) = FirstUnresolvable - 1
        /\ Len(ReleasePositions) = 0
        /\ \A i \in 1..Len(ir) : ir[i].op # "return"
        /\ output = 0
        /\ ~written

\* The run aborted at an undeclared qubit after emitting an instruction, with
\* qubits allocated that are then never released.
C6_Witness ==
    /\ err = "name_resolution"
    /\ Len(model.instructions) = 2
    /\ Unresolvable(2)
    /\ Len(InstPositions) = 1
    /\ Len(AllocPositions) > 0

\* ------------------------------------------------------------------------
\* C7
\* ------------------------------------------------------------------------
\* C7: with zero classical registers, write_registers emits one empty-array
\* allocation named "results" and no other array operation; that array has
\* length zero and the returned table holds only the "results" entry.
C7_NoRegistersEmptyResults ==
    (Taken("write_registers") /\ Len(model.registers) = 0) =>
        LET made == PositionsOf(ir, {"array_allocate1d", "array_1d", "set_elements",
                                     "empty_result_array_allocate1d"}, 1)
        IN  /\ Len(made) = 1
            /\ ir[made[1]].op = "empty_result_array_allocate1d"
            /\ ir[made[1]].name = ResultsName
            /\ DOMAIN arrays = {made[1]}
            /\ Len(arrays[made[1]]) = 0
            /\ DOMAIN registers = {ResultsName}
            /\ registers[ResultsName] = made[1]

\* A completed run on a model without classical registers that returned the
\* empty array.
C7_Witness ==
    /\ pc = "done"
    /\ Len(model.registers) = 0
    /\ output # 0
    /\ ir[output].op = "empty_result_array_allocate1d"

\* ------------------------------------------------------------------------
\* C8
\* ------------------------------------------------------------------------
\* The last entry of the model that produces the indexed name n.
LastEntryNamed(n) ==
    CHOOSE i \in 1..Len(model.qubits) :
        /\ NameOfEntry(model.qubits[i]) = n
        /\ \A h \in (i + 1)..Len(model.qubits) : NameOfEntry(model.qubits[h]) # n

\* Two entries of the model produce the same indexed name.
SomeNameTwice ==
    \E i, h \in 1..Len(model.qubits) :
        i < h /\ NameOfEntry(model.qubits[i]) = NameOfEntry(model.qubits[h])

\* C8: entries that produce the same indexed name do not abort write_qubits:
\* every entry gets its allocation, the table has exactly one entry per
\* produced name, holding the value of the last allocation under that name,
\* and the instruction calls use that value.
C8_DuplicateNameKeepsLater ==
    Taken("write_qubits") =>
        /\ Len(AllocPositions) = Len(model.qubits)
        /\ DOMAIN qubits = DeclaredNames
        /\ \A n \in DeclaredNames : qubits[n] = AllocPositions[LastEntryNamed(n)]
        /\ Len(trace) = 3 => pc = "write_registers"
        /\ \A k \in 1..Len(InstPositions) :
              \A j \in 1..Len(model.instructions[k].qubits) :
                  ir[InstPositions[k]].args[j] =
                      AllocPositions[LastEntryNamed(model.instructions[k].qubits[j])]

\* A completed run in which two different entries produced the same name and
\* an emitted instruction names it.
C8_Witness ==
    /\ pc = "done"
    /\ \E i, h \in 1..Len(model.qubits) :
          /\ i < h
          /\ model.qubits[i] # model.qubits[h]
          /\ NameOfEntry(model.qubits[i]) = NameOfEntry(model.qubits[h])
          /\ \E k \in 1..Len(InstPositions) :
                \E j \in 1..Len(model.instructions[k].qubits) :
                    /\ model.instructions[k].qubits[j] = NameOfEntry(model.qubits[h])
                    /\ ir[InstPositions[k]].args[j] = AllocPositions[h]

\* ------------------------------------------------------------------------
\* C9
\* ------------------------------------------------------------------------
\* C9: write_qubits emits exactly one allocation per quantum register entry,
\* the k-th for the k-th entry and named base name followed by the index
\* without separator; no allocation is emitted by any other step.
C9_OneAllocationPerEntryInOrder ==
    /\ ~Taken("write_qubits") => Len(AllocPositions) = 0
    /\ Taken("write_qubits") =>
          /\ Len(AllocPositions) = Len(model.qubits)
          /\ \A k \in 1..Len(model.qubits) :
                /\ ir[AllocPositions[k]].name = model.qubits[k].name \o Decimal(model.qubits[k].index)
                /\ ir[AllocPositions[k]].id = AllocPositions[k]
          /\ \A k \in 1..(Len(model.qubits) - 1) : AllocPositions[k] < AllocPositions[k + 1]

\* write_qubits has run on two entries with different names, one of them with
\* a two-digit index.
C9_Witness ==
    /\ Taken("write_qubits")
    /\ Len(model.qubits) = 2
    /\ model.qubits[1].index = 10
    /\ ir[AllocPositions[1]].name = <<"q", "1", "0">>
    /\ ir[AllocPositions[2]].name = <<"q", "0">>

\* ------------------------------------------------------------------------
\* C10
\* ------------------------------------------------------------------------
\* Every step of write up to the serialization has been taken and has left
\* its operations in the function.
ReachedSerialization ==
    /\ Taken("emit_ir")
    /\ Len(AllocPositions) = Len(model.qubits)
    /\ Taken("write_registers")
    /\ Len(InstPositions) = Len(model.instructions)
    /\ Len(ReleasePositions) = Cardinality(DeclaredNames)
    /\ \E i \in 1..Len(ir) : ir[i].op = "return"
    /\ pc \in {"done", "aborted"}
    /\ pc = "done" <=> written

\* C10: on a well-formed model (every qubit name an instruction uses is a
\* declared indexed name), a run of write whose entry function is open goes
\* on to the serialization step, having allocated the qubits, built the
\* registers, emitted every instruction, released the qubits and built the
\* return.
C10_WellFormedReachesSerialization ==
    (pc = "write_qubits" /\ WellFormed) ~> ReachedSerialization

\* A completed run of a well-formed model with a classical register, two
\* instructions and no measurement.
C10_Witness ==
    /\ pc = "done"
    /\ written
    /\ WellFormed
    /\ Len(model.registers) >= 1
    /\ Len(model.instructions) = 2
    /\ \A k \in 1..Len(model.instructions) : model.instructions[k].kind # "M"

\* ------------------------------------------------------------------------
\* C11
\* ------------------------------------------------------------------------
\* C11: the module is written to the output path only if the context was
\* constructed, the qubits allocated, the registers built, every instruction
\* emitted, the qubits released and the return built, all without a fatal
\* error; a run that aborted before the serialization step never takes it.
C11_AllOrNothing ==
    /\ (written \/ Taken("emit_ir")) =>
          /\ \A i \in 1..7 : Taken(C2_Steps[i])
          /\ err \in {"", "serialization"}
          /\ Len(AllocPositions) = Len(model.qubits)
          /\ ResultsName \in DOMAIN registers
          /\ Len(InstPositions) = Len(model.instructions)
          /\ \A k \in 1..Len(model.instructions) : ~Unresolvable(k)
          /\ Len(ReleasePositions) = Cardinality(DOMAIN qubits)
          /\ output # 0
          /\ ir[Len(ir)].op = "return"
    /\ written => err = ""
    /\ err \in {"declaration", "name_resolution", "unwrap"} =>
          /\ pc = "aborted"
          /\ ~Taken("emit_ir")
          /\ ~written

\* A written module with two allocations, two instruction calls and at least
\* one release in it.
C11_Witness ==
    /\ written
    /\ Len(AllocPositions) = 2
    /\ Len(InstPositions) = 2
    /\ Len(ReleasePositions) >= 1

\* ------------------------------------------------------------------------
\* C13
\* ------------------------------------------------------------------------
\* The array operations of write_registers, by kind, in emission order.
TopPositions == PositionsOf(ir, {"array_allocate1d"}, 1)

SubPositions == PositionsOf(ir, {"array_1d"}, 1)

SetPositions == PositionsOf(ir, {"set_elements"}, 1)

\* C13 as stated: with at least one classical register, write_registers first
\* allocates each register's result array in model order, then the top-level
\* "results" array of element size 8 with one slot per register, then
\* populates the top-level array.
C13_SubArraysThenTopLevel ==
    (Taken("write_registers") /\ Len(model.registers) >= 1) =>
        /\ Len(TopPositions) = 1
        /\ Len(SetPositions) = 1
        /\ Len(SubPositions) = Len(model.registers)
        /\ \A i \in 1..Len(SubPositions) :
              /\ ir[SubPositions[i]].name = model.registers[i].name
              /\ SubPositions[i] < TopPositions[1]
        /\ ir[TopPositions[1]].args = <<8, Len(model.registers)>>
        /\ TopPositions[1] < SetPositions[1]

\* C13 amended: with at least one classical register, write_registers first
\* allocates the top-level "results" array of element size 8 with one slot
\* per register, then each register's result array in model order, then
\* populates the top-level array with those arrays; the three groups are
\* contiguous in the function.
C13_TopLevelThenSubArrays ==
    (Taken("write_registers") /\ Len(model.registers) >= 1) =>
        /\ Len(TopPositions) = 1
        /\ Len(SetPositions) = 1
        /\ Len(SubPositions) = Len(model.registers)
        /\ ir[TopPositions[1]].name = ResultsName
        /\ ir[TopPositions[1]].args = <<8, Len(model.registers)>>
        /\ \A i \in 1..Len(SubPositions) :
              /\ ir[SubPositions[i]].name = model.registers[i].name
              /\ ir[SubPositions[i]].args = <<model.registers[i].size>>
              /\ SubPositions[i] = TopPositions[1] + i
        /\ SetPositions[1] = TopPositions[1] + Len(model.registers) + 1
        /\ ir[SetPositions[1]].id = TopPositions[1]
        /\ ir[SetPositions[1]].args = SubPositions

\* write_registers has run on two classical registers of different names.
C13_Witness ==
    /\ Taken("write_registers")
    /\ Len(model.registers) = 2
    /\ model.registers[1].name # model.registers[2].name
    /\ Len(SubPositions) = 2
    /\ Len(SetPositions) = 1

\* ------------------------------------------------------------------------
\* C14
\* ------------------------------------------------------------------------
\* The indexed name under which the j-th released value was allocated.
ReleasedName(j) == ir[ir[ReleasePositions[j]].args[1]].name

\* The first entry of the model that produces the indexed name n: the place
\* of n in an insertion-ordered table.
FirstEntryNamed(n) ==
    CHOOSE i \in 1..Len(model.qubits) :
        /\ NameOfEntry(model.qubits[i]) = n
        /\ \A h \in 1..(i - 1) : NameOfEntry(model.qubits[h]) # n

\* C14 as stated: free_qubits emits the releases in insertion order of the
\* qubit table, the order in which write_qubits allocated the qubits.
C14_ReleaseInInsertionOrder ==
    Taken("free_qubits") =>
        \A j \in 1..(Len(ReleasePositions) - 1) :
            FirstEntryNamed(ReleasedName(j)) < FirstEntryNamed(ReleasedName(j + 1))

\* C14 amended: free_qubits emits one release per entry of the qubit table,
\* for the value the table holds, in ascending bytewise order of the indexed
\* names (the iteration order of the BTreeMap), whatever the order of
\* declaration.
C14_ReleaseInKeyOrder ==
    /\ ~Taken("free_qubits") => Len(ReleasePositions) = 0
    /\ Taken("free_qubits") =>
          /\ Len(ReleasePositions) = Cardinality(DOMAIN qubits)
          /\ \A j \in 1..Len(ReleasePositions) :
                /\ ReleasedName(j) \in DOMAIN qubits
                /\ ir[ReleasePositions[j]].args = <<qubits[ReleasedName(j)]>>
          /\ \A j \in 1..(Len(ReleasePositions) - 1) :
                StrLess(ReleasedName(j), ReleasedName(j + 1))

\* free_qubits has run on "q10" declared before "q0": the releases are in
\* the opposite order of the allocations.
C14_Witness ==
    /\ Taken("free_qubits")
    /\ Len(model.qubits) = 2
    /\ NameOfEntry(model.qubits[1]) = <<"q", "1", "0">>
    /\ NameOfEntry(model.qubits[2]) = <<"q", "0">>
    /\ Len(ReleasePositions) = 2
    /\ ir[ReleasePositions[1]].args = <<AllocPositions[2]>>
    /\ ir[ReleasePositions[2]].args = <<AllocPositions[1]>>

\* ------------------------------------------------------------------------
\* C15
\* ------------------------------------------------------------------------
\* Instruction k of the model is a measurement whose target is not a key of
\* the register table.
UnknownTarget(k) ==
    /\ model.instructions[k].kind = "M"
    /\ model.instructions[k].target \notin DOMAIN registers

\* C15: a measurement whose target classical-bit name is not present in the
\* table built by write_registers makes emission abort with a
\* name-resolution failure; the measurement is neither emitted nor skipped.
C15_UnknownTargetAborts ==
    (Taken("write_instructions") /\ \E k \in 1..Len(model.instructions) : UnknownTarget(k)) =>
        /\ pc = "aborted"
        /\ err = "name_resolution"
        /\ \A k \in 1..Len(InstPositions) : ~UnknownTarget(k)

\* ------------------------------------------------------------------------
\* C16
\* ------------------------------------------------------------------------
\* How many times step s has been taken.
TimesTaken(s) == Cardinality({ i \in 1..Len(trace) : trace[i] = s })

\* C16: if writing the module to the output path fails, write ends in a
\* fatal abort: the write was attempted exactly once, nothing runs after it
\* and the call does not end as a success.
C16_WriteFailureIsFatal ==
    /\ TimesTaken("emit_ir") <= 1
    /\ (Taken("emit_ir") /\ ~written) =>
          /\ pc = "aborted"
          /\ err = "serialization"
          /\ trace[Len(trace)] = "emit_ir"
    /\ pc = "done" => (written /\ err = "")

\* The write of a complete function (allocations, instruction calls,
\* releases, return) failed.
C16_Witness ==
    /\ err = "serialization"
    /\ ~written
    /\ Len(InstPositions) = 2
    /\ Len(ReleasePositions) = 2
    /\ output # 0

\* ------------------------------------------------------------------------
\* C17
\* ------------------------------------------------------------------------
\* C17: a missing declaration fails the construction of the context at the
\* start of write, before the entry function is opened: that run allocates
\* no qubit and no register, emits no instruction, no release and no return,
\* and writes nothing.
C17_MissingDeclarationFailsFirst ==
    err = "declaration" =>
        /\ pc = "aborted"
        /\ trace = <<"context">>
        /\ ir = <<>>
        /\ DOMAIN qubits = {}
        /\ DOMAIN registers = {}
        /\ DOMAIN arrays = {}
        /\ output = 0
        /\ ~written

\* The construction failed for a model that declares qubits, a register and
\* instructions.
C17_Witness ==
    /\ err = "declaration"
    /\ Len(model.qubits) = 2
    /\ Len(model.registers) >= 1
    /\ Len(model.instructions) = 2

====
